---- MODULE Spec2Model ----
(***************************************************************************)
(* Model of the Tabelog crawl-and-extract pipeline                         *)
(* (src/src/restaurant_data_pipeline/tabelog.py, src/src/__main__.py).     *)
(*                                                                         *)
(* One run is proc(): Tabelog(...) is constructed, scrape() walks the      *)
(* listing pages and hands the accumulated url_list to _scrape_item(),     *)
(* and the returned frame is written once.  The remote site is the         *)
(* environment: every fetch draws its outcome (body, HTTP status or        *)
(* transport fault) nondeterministically.                                  *)
(***************************************************************************)
EXTENDS Integers, Sequences, FiniteSets, TLC

VARIABLES
    test_mode,      \* self.test_mode
    begin_page,     \* self.begin_page
    limit,          \* self.limit
    restaurant_id,  \* self.restaurant_id, the sequence-id counter
    page_num,       \* scrape(): page_num
    url_list,       \* scrape(): url_list, the accumulated candidates
    item_idx,       \* _scrape_item(): position of the for loop in url_list
    data_list,      \* _scrape_item(): data_list
    pc,             \* where the run is: init, walk, harvest, done (scrape()
                    \* returned), written, aborted (an exception is
                    \* propagating), exited (the process ended)
    exc,            \* the exception that ended the run, if any
    log,            \* every fetch and every sleep of the run, in order
    irregular,      \* environment: irregular responses served so far
    doc,            \* _scrape_item(): bs, the document parsed last
    client,         \* self.client: open or closed
    issued,         \* every id the counter has handed out, in order
    calls           \* the number of scrape() calls on the instance

vars == <<test_mode, begin_page, limit, restaurant_id, page_num, url_list,
          item_idx, data_list, pc, exc, log, irregular, doc, client, issued,
          calls>>

----------------------------------------------------------------------------
(* Bounds of the explored environment *)

\* listing pages numbered above LastPage carry no restaurant anchor
LastPage == 2
\* most anchors on one listing page of a normal run
MaxAnchors == 2
\* most anchors on the listing page served to a test-mode run
MaxTestAnchors == 9
\* most irregular responses in one run: anchors without a link target,
\* detail fetches with a failure status, detail documents lacking fields
MaxIrregular == 1
\* most scrape() calls on one instance
MaxScrapes == 2

(* Program constants *)
UPPER_LIMIT == 60
TEST_MODE_LENGTH == 5

----------------------------------------------------------------------------
(* Optional values: None is the empty tuple, Some(v) the 1-tuple *)

None == <<>>
Some(v) == <<v>>

\* Python truthiness of an Optional[int]: None and 0 are falsy
Truthy(o) == o # None /\ o[1] # 0

\* Python `a or b` for an Optional[int] a and an int b
OrElse(o, d) == IF Truthy(o) THEN o[1] ELSE d

----------------------------------------------------------------------------
(* HTTP *)

Statuses == {200, 404, 500}

\* httpx.Response.raise_for_status() returns for a 2xx status and raises
\* HTTPStatusError otherwise
IsSuccess(status) == status >= 200 /\ status <= 299

FailureStatuses == {s \in Statuses : ~IsSuccess(s)}

\* the log entries.  kind is list_get (n the page number), item_get (n the
\* position in url_list), delay, sleep, write_csv, write_fault or close;
\* status is the HTTP
\* status of a fetch that got a response, NoResponse otherwise; body is
\* the anchors of a listing page that was fetched successfully
NoResponse == 0
Event(kind, n, status, body) ==
    [kind |-> kind, n |-> n, status |-> status, body |-> body]

----------------------------------------------------------------------------
(* Listing pages.  A page body is the document-order sequence of the href   *)
(* attributes of its a.list-rst__rst-name-target anchors; NoHref stands for *)
(* an anchor whose href is missing or empty.                                *)

NoHref == <<>>
Href(page, pos) == <<page, pos>>

\* all sequences over S of length n
RECURSIVE SeqsOfLen(_, _)
SeqsOfLen(S, n) ==
    IF n = 0 THEN {<<>>}
    ELSE {Append(s, x) : s \in SeqsOfLen(S, n - 1), x \in S}

\* the number of anchors of a body that lack a link target
RECURSIVE CountNoHref(_)
CountNoHref(body) ==
    IF body = <<>> THEN 0
    ELSE (IF body[1] = NoHref THEN 1 ELSE 0) + CountNoHref(Tail(body))

\* the bodies the site may serve for listing page `page`
PageBodies(page, testing, budget) ==
    LET most == IF page > LastPage \/ page < 1 THEN 0
                ELSE IF testing THEN MaxTestAnchors ELSE MaxAnchors
        flags == UNION {SeqsOfLen(BOOLEAN, n) : n \in 0..most}
        body(f) == [i \in 1..Len(f) |-> IF f[i] THEN Href(page, i) ELSE NoHref]
    IN {b \in {body(f) : f \in flags} : CountNoHref(b) <= budget}

----------------------------------------------------------------------------
(* Tabelog.__init__ *)

\* self.begin_page = skip or 1
BeginPage(skip) == OrElse(skip, 1)

\* self.limit = limit or self.UPPER_LIMIT
Limit(lim) == OrElse(lim, UPPER_LIMIT)

----------------------------------------------------------------------------
(* Tabelog._scrape_urls, after a successful fetch *)

Min(a, b) == IF a <= b THEN a ELSE b

\* mutant of TargetRestaurants: test mode does not truncate
TargetRestaurantsUntruncated(soup_a_list, testing) == soup_a_list

\* soup_a_list[: self.TEST_MODE_LENGTH] in test mode, soup_a_list otherwise
TargetRestaurants(soup_a_list, testing) ==
    IF testing
    THEN SubSeq(soup_a_list, 1, Min(TEST_MODE_LENGTH, Len(soup_a_list)))
    ELSE soup_a_list

\* mutant of CollectItems: the counter is incremented before the href test,
\* so a skipped anchor takes an id
RECURSIVE CollectItemsSkipTakesId(_, _)
CollectItemsSkipTakesId(target, next_id) ==
    IF target = <<>> THEN [list |-> <<>>, next_id |-> next_id]
    ELSE LET rest == CollectItemsSkipTakesId(Tail(target), next_id + 1)
         IN IF Head(target) = NoHref THEN rest
            ELSE [list |-> <<[restaurant_id |-> next_id,
                              url |-> Head(target)]>> \o rest.list,
                  next_id |-> rest.next_id]

\* the for loop over target_restaurants: an anchor without href is skipped
\* and takes no id; every other one is appended with the next id
RECURSIVE CollectItems(_, _)
CollectItems(target, next_id) ==
    IF target = <<>> THEN [list |-> <<>>, next_id |-> next_id]
    ELSE IF Head(target) = NoHref THEN CollectItems(Tail(target), next_id)
    ELSE LET rest == CollectItems(Tail(target), next_id + 1)
         IN [list |-> <<[restaurant_id |-> next_id, url |-> Head(target)]>>
                        \o rest.list,
             next_id |-> rest.next_id]

\* mutant of NoMoreRestaurants: an empty page does not end the loop
NoMoreRestaurantsIgnored(restaurant_url_list) == FALSE

\* scrape(): `if restaurant_url_list:` fails, the loop breaks
NoMoreRestaurants(restaurant_url_list) == restaurant_url_list = <<>>

\* mutant of ReachedLimit: the limit is compared with the page just
\* fetched, as if the test came before `page_num += 1`
ReachedLimitBeforeIncrement(next_page, lim) == next_page - 1 > lim

\* mutant of ReachedLimit: one page too many
ReachedLimitOffByOne(next_page, lim) == next_page > lim + 1

\* mutant of ReachedLimit: the limit never stops the walker
ReachedLimitNever(next_page, lim) == FALSE

\* scrape(): `if page_num > self.limit`, on the incremented page_num
ReachedLimit(next_page, lim) == next_page > lim

\* the list _scrape_urls returns for a fetched body, and the counter after it
ScrapeUrls(soup_a_list, testing, next_id) ==
    IF soup_a_list = <<>> THEN [list |-> <<>>, next_id |-> next_id]
    ELSE CollectItems(TargetRestaurants(soup_a_list, testing), next_id)

----------------------------------------------------------------------------
(* Python number parsing.  A text is the tuple of its characters: a       *)
(* printable ASCII character is the one-character string, any other        *)
(* character the string of "U+" and its code point in hexadecimal.         *)

\* the characters of category Nd, by their decimal value: DecimalDigits[v + 1]
\* holds the characters int() and float() read as the digit v
DecimalDigits ==
    <<
      {"0", "U+0660", "U+06F0", "U+07C0", "U+0966", "U+09E6", "U+0A66",
       "U+0AE6", "U+0B66", "U+0BE6", "U+0C66", "U+0CE6", "U+0D66", "U+0DE6",
       "U+0E50", "U+0ED0", "U+0F20", "U+1040", "U+1090", "U+17E0", "U+1810",
       "U+1946", "U+19D0", "U+1A80", "U+1A90", "U+1B50", "U+1BB0", "U+1C40",
       "U+1C50", "U+A620", "U+A8D0", "U+A900", "U+A9D0", "U+A9F0", "U+AA50",
       "U+ABF0", "U+FF10", "U+104A0", "U+10D30", "U+11066", "U+110F0",
       "U+11136", "U+111D0", "U+112F0", "U+11450", "U+114D0", "U+11650",
       "U+116C0", "U+11730", "U+118E0", "U+11950", "U+11C50", "U+11D50",
       "U+11DA0", "U+16A60", "U+16AC0", "U+16B50", "U+1D7CE", "U+1D7D8",
       "U+1D7E2", "U+1D7EC", "U+1D7F6", "U+1E140", "U+1E2F0", "U+1E950",
       "U+1FBF0"},
      {"1", "U+0661", "U+06F1", "U+07C1", "U+0967", "U+09E7", "U+0A67",
       "U+0AE7", "U+0B67", "U+0BE7", "U+0C67", "U+0CE7", "U+0D67", "U+0DE7",
       "U+0E51", "U+0ED1", "U+0F21", "U+1041", "U+1091", "U+17E1", "U+1811",
       "U+1947", "U+19D1", "U+1A81", "U+1A91", "U+1B51", "U+1BB1", "U+1C41",
       "U+1C51", "U+A621", "U+A8D1", "U+A901", "U+A9D1", "U+A9F1", "U+AA51",
       "U+ABF1", "U+FF11", "U+104A1", "U+10D31", "U+11067", "U+110F1",
       "U+11137", "U+111D1", "U+112F1", "U+11451", "U+114D1", "U+11651",
       "U+116C1", "U+11731", "U+118E1", "U+11951", "U+11C51", "U+11D51",
       "U+11DA1", "U+16A61", "U+16AC1", "U+16B51", "U+1D7CF", "U+1D7D9",
       "U+1D7E3", "U+1D7ED", "U+1D7F7", "U+1E141", "U+1E2F1", "U+1E951",
       "U+1FBF1"},
      {"2", "U+0662", "U+06F2", "U+07C2", "U+0968", "U+09E8", "U+0A68",
       "U+0AE8", "U+0B68", "U+0BE8", "U+0C68", "U+0CE8", "U+0D68", "U+0DE8",
       "U+0E52", "U+0ED2", "U+0F22", "U+1042", "U+1092", "U+17E2", "U+1812",
       "U+1948", "U+19D2", "U+1A82", "U+1A92", "U+1B52", "U+1BB2", "U+1C42",
       "U+1C52", "U+A622", "U+A8D2", "U+A902", "U+A9D2", "U+A9F2", "U+AA52",
       "U+ABF2", "U+FF12", "U+104A2", "U+10D32", "U+11068", "U+110F2",
       "U+11138", "U+111D2", "U+112F2", "U+11452", "U+114D2", "U+11652",
       "U+116C2", "U+11732", "U+118E2", "U+11952", "U+11C52", "U+11D52",
       "U+11DA2", "U+16A62", "U+16AC2", "U+16B52", "U+1D7D0", "U+1D7DA",
       "U+1D7E4", "U+1D7EE", "U+1D7F8", "U+1E142", "U+1E2F2", "U+1E952",
       "U+1FBF2"},
      {"3", "U+0663", "U+06F3", "U+07C3", "U+0969", "U+09E9", "U+0A69",
       "U+0AE9", "U+0B69", "U+0BE9", "U+0C69", "U+0CE9", "U+0D69", "U+0DE9",
       "U+0E53", "U+0ED3", "U+0F23", "U+1043", "U+1093", "U+17E3", "U+1813",
       "U+1949", "U+19D3", "U+1A83", "U+1A93", "U+1B53", "U+1BB3", "U+1C43",
       "U+1C53", "U+A623", "U+A8D3", "U+A903", "U+A9D3", "U+A9F3", "U+AA53",
       "U+ABF3", "U+FF13", "U+104A3", "U+10D33", "U+11069", "U+110F3",
       "U+11139", "U+111D3", "U+112F3", "U+11453", "U+114D3", "U+11653",
       "U+116C3", "U+11733", "U+118E3", "U+11953", "U+11C53", "U+11D53",
       "U+11DA3", "U+16A63", "U+16AC3", "U+16B53", "U+1D7D1", "U+1D7DB",
       "U+1D7E5", "U+1D7EF", "U+1D7F9", "U+1E143", "U+1E2F3", "U+1E953",
       "U+1FBF3"},
      {"4", "U+0664", "U+06F4", "U+07C4", "U+096A", "U+09EA", "U+0A6A",
       "U+0AEA", "U+0B6A", "U+0BEA", "U+0C6A", "U+0CEA", "U+0D6A", "U+0DEA",
       "U+0E54", "U+0ED4", "U+0F24", "U+1044", "U+1094", "U+17E4", "U+1814",
       "U+194A", "U+19D4", "U+1A84", "U+1A94", "U+1B54", "U+1BB4", "U+1C44",
       "U+1C54", "U+A624", "U+A8D4", "U+A904", "U+A9D4", "U+A9F4", "U+AA54",
       "U+ABF4", "U+FF14", "U+104A4", "U+10D34", "U+1106A", "U+110F4",
       "U+1113A", "U+111D4", "U+112F4", "U+11454", "U+114D4", "U+11654",
       "U+116C4", "U+11734", "U+118E4", "U+11954", "U+11C54", "U+11D54",
       "U+11DA4", "U+16A64", "U+16AC4", "U+16B54", "U+1D7D2", "U+1D7DC",
       "U+1D7E6", "U+1D7F0", "U+1D7FA", "U+1E144", "U+1E2F4", "U+1E954",
       "U+1FBF4"},
      {"5", "U+0665", "U+06F5", "U+07C5", "U+096B", "U+09EB", "U+0A6B",
       "U+0AEB", "U+0B6B", "U+0BEB", "U+0C6B", "U+0CEB", "U+0D6B", "U+0DEB",
       "U+0E55", "U+0ED5", "U+0F25", "U+1045", "U+1095", "U+17E5", "U+1815",
       "U+194B", "U+19D5", "U+1A85", "U+1A95", "U+1B55", "U+1BB5", "U+1C45",
       "U+1C55", "U+A625", "U+A8D5", "U+A905", "U+A9D5", "U+A9F5", "U+AA55",
       "U+ABF5", "U+FF15", "U+104A5", "U+10D35", "U+1106B", "U+110F5",
       "U+1113B", "U+111D5", "U+112F5", "U+11455", "U+114D5", "U+11655",
       "U+116C5", "U+11735", "U+118E5", "U+11955", "U+11C55", "U+11D55",
       "U+11DA5", "U+16A65", "U+16AC5", "U+16B55", "U+1D7D3", "U+1D7DD",
       "U+1D7E7", "U+1D7F1", "U+1D7FB", "U+1E145", "U+1E2F5", "U+1E955",
       "U+1FBF5"},
      {"6", "U+0666", "U+06F6", "U+07C6", "U+096C", "U+09EC", "U+0A6C",
       "U+0AEC", "U+0B6C", "U+0BEC", "U+0C6C", "U+0CEC", "U+0D6C", "U+0DEC",
       "U+0E56", "U+0ED6", "U+0F26", "U+1046", "U+1096", "U+17E6", "U+1816",
       "U+194C", "U+19D6", "U+1A86", "U+1A96", "U+1B56", "U+1BB6", "U+1C46",
       "U+1C56", "U+A626", "U+A8D6", "U+A906", "U+A9D6", "U+A9F6", "U+AA56",
       "U+ABF6", "U+FF16", "U+104A6", "U+10D36", "U+1106C", "U+110F6",
       "U+1113C", "U+111D6", "U+112F6", "U+11456", "U+114D6", "U+11656",
       "U+116C6", "U+11736", "U+118E6", "U+11956", "U+11C56", "U+11D56",
       "U+11DA6", "U+16A66", "U+16AC6", "U+16B56", "U+1D7D4", "U+1D7DE",
       "U+1D7E8", "U+1D7F2", "U+1D7FC", "U+1E146", "U+1E2F6", "U+1E956",
       "U+1FBF6"},
      {"7", "U+0667", "U+06F7", "U+07C7", "U+096D", "U+09ED", "U+0A6D",
       "U+0AED", "U+0B6D", "U+0BED", "U+0C6D", "U+0CED", "U+0D6D", "U+0DED",
       "U+0E57", "U+0ED7", "U+0F27", "U+1047", "U+1097", "U+17E7", "U+1817",
       "U+194D", "U+19D7", "U+1A87", "U+1A97", "U+1B57", "U+1BB7", "U+1C47",
       "U+1C57", "U+A627", "U+A8D7", "U+A907", "U+A9D7", "U+A9F7", "U+AA57",
       "U+ABF7", "U+FF17", "U+104A7", "U+10D37", "U+1106D", "U+110F7",
       "U+1113D", "U+111D7", "U+112F7", "U+11457", "U+114D7", "U+11657",
       "U+116C7", "U+11737", "U+118E7", "U+11957", "U+11C57", "U+11D57",
       "U+11DA7", "U+16A67", "U+16AC7", "U+16B57", "U+1D7D5", "U+1D7DF",
       "U+1D7E9", "U+1D7F3", "U+1D7FD", "U+1E147", "U+1E2F7", "U+1E957",
       "U+1FBF7"},
      {"8", "U+0668", "U+06F8", "U+07C8", "U+096E", "U+09EE", "U+0A6E",
       "U+0AEE", "U+0B6E", "U+0BEE", "U+0C6E", "U+0CEE", "U+0D6E", "U+0DEE",
       "U+0E58", "U+0ED8", "U+0F28", "U+1048", "U+1098", "U+17E8", "U+1818",
       "U+194E", "U+19D8", "U+1A88", "U+1A98", "U+1B58", "U+1BB8", "U+1C48",
       "U+1C58", "U+A628", "U+A8D8", "U+A908", "U+A9D8", "U+A9F8", "U+AA58",
       "U+ABF8", "U+FF18", "U+104A8", "U+10D38", "U+1106E", "U+110F8",
       "U+1113E", "U+111D8", "U+112F8", "U+11458", "U+114D8", "U+11658",
       "U+116C8", "U+11738", "U+118E8", "U+11958", "U+11C58", "U+11D58",
       "U+11DA8", "U+16A68", "U+16AC8", "U+16B58", "U+1D7D6", "U+1D7E0",
       "U+1D7EA", "U+1D7F4", "U+1D7FE", "U+1E148", "U+1E2F8", "U+1E958",
       "U+1FBF8"},
      {"9", "U+0669", "U+06F9", "U+07C9", "U+096F", "U+09EF", "U+0A6F",
       "U+0AEF", "U+0B6F", "U+0BEF", "U+0C6F", "U+0CEF", "U+0D6F", "U+0DEF",
       "U+0E59", "U+0ED9", "U+0F29", "U+1049", "U+1099", "U+17E9", "U+1819",
       "U+194F", "U+19D9", "U+1A89", "U+1A99", "U+1B59", "U+1BB9", "U+1C49",
       "U+1C59", "U+A629", "U+A8D9", "U+A909", "U+A9D9", "U+A9F9", "U+AA59",
       "U+ABF9", "U+FF19", "U+104A9", "U+10D39", "U+1106F", "U+110F9",
       "U+1113F", "U+111D9", "U+112F9", "U+11459", "U+114D9", "U+11659",
       "U+116C9", "U+11739", "U+118E9", "U+11959", "U+11C59", "U+11D59",
       "U+11DA9", "U+16A69", "U+16AC9", "U+16B59", "U+1D7D7", "U+1D7E1",
       "U+1D7EB", "U+1D7F5", "U+1D7FF", "U+1E149", "U+1E2F9", "U+1E959",
       "U+1FBF9"}>>

\* the decimal value of each digit character
DigitTable ==
    [c \in UNION {DecimalDigits[v] : v \in 1..10} |->
        (CHOOSE v \in 1..10 : c \in DecimalDigits[v]) - 1]

\* the decimal value of a digit character, -1 for any other character
CharValue(c) == IF c \in DOMAIN DigitTable THEN DigitTable[c] ELSE -1

\* the characters int() and float() strip from both ends of the text
Whitespace ==
    {"U+0009", "U+000A", "U+000B", "U+000C", "U+000D", " ", "U+0085",
     "U+00A0", "U+1680", "U+2000", "U+2001", "U+2002", "U+2003", "U+2004",
     "U+2005", "U+2006", "U+2007", "U+2008", "U+2009", "U+200A", "U+2028",
     "U+2029", "U+202F", "U+205F", "U+3000"}

RECURSIVE LStrip(_)
LStrip(text) ==
    IF text # <<>> /\ Head(text) \in Whitespace THEN LStrip(Tail(text))
    ELSE text

RECURSIVE RStrip(_)
RStrip(text) ==
    IF text # <<>> /\ text[Len(text)] \in Whitespace
    THEN RStrip(SubSeq(text, 1, Len(text) - 1))
    ELSE text

Strip(text) == RStrip(LStrip(text))

\* the number a sequence of decimal values denotes
RECURSIVE DigitsVal(_)
DigitsVal(ds) ==
    IF ds = <<>> THEN 0
    ELSE DigitsVal(SubSeq(ds, 1, Len(ds) - 1)) * 10 + ds[Len(ds)]

\* what an extractor or a parser hands back: a value, or an exception
Returns(v) == [raised |-> "", val |-> v]
Raises(e) == [raised |-> e, val |-> None]

Unsigned(text) ==
    IF text # <<>> /\ text[1] \in {"+", "-"} THEN Tail(text) ELSE text

Sign(text) == IF text # <<>> /\ text[1] = "-" THEN -1 ELSE 1

\* The scan of an unsigned number text, character by character.  phase is
\* what was read last: nothing ("start"), a digit or an underscore of the
\* digits before the point ("int", "int_"), the point ("dot0" with no
\* digit before it, "dot" otherwise), a digit or an underscore after the
\* point ("frac", "frac_"), the exponent mark ("e"), the sign of the
\* exponent ("esign"), a digit or an underscore of the exponent ("exp",
\* "exp_"); "bad" when the text is no number.  digits are the values of
\* the digits before and after the point, nwhole how many of them stand
\* before the point, esign and edigits the exponent.
NumberStart ==
    [phase |-> "start", digits |-> <<>>, nwhole |-> 0, esign |-> 1,
     edigits |-> <<>>]

\* the scan after the character c, whose decimal value is v
NumberStep(st, c, v) ==
    IF v >= 0
    THEN CASE st.phase \in {"start", "int", "int_"} ->
                 [st EXCEPT !.phase = "int", !.digits = Append(@, v),
                            !.nwhole = @ + 1]
           [] st.phase \in {"dot0", "dot", "frac", "frac_"} ->
                 [st EXCEPT !.phase = "frac", !.digits = Append(@, v)]
           [] st.phase \in {"e", "esign", "exp", "exp_"} ->
                 [st EXCEPT !.phase = "exp", !.edigits = Append(@, v)]
           [] OTHER -> [st EXCEPT !.phase = "bad"]
    ELSE IF c = "_"
    THEN CASE st.phase = "int" -> [st EXCEPT !.phase = "int_"]
           [] st.phase = "frac" -> [st EXCEPT !.phase = "frac_"]
           [] st.phase = "exp" -> [st EXCEPT !.phase = "exp_"]
           [] OTHER -> [st EXCEPT !.phase = "bad"]
    ELSE IF c = "."
    THEN CASE st.phase = "start" -> [st EXCEPT !.phase = "dot0"]
           [] st.phase = "int" -> [st EXCEPT !.phase = "dot"]
           [] OTHER -> [st EXCEPT !.phase = "bad"]
    ELSE IF c \in {"e", "E"}
    THEN CASE st.phase \in {"int", "dot", "frac"} -> [st EXCEPT !.phase = "e"]
           [] OTHER -> [st EXCEPT !.phase = "bad"]
    ELSE IF c \in {"+", "-"}
    THEN CASE st.phase = "e" ->
                 [st EXCEPT !.phase = "esign",
                            !.esign = IF c = "-" THEN -1 ELSE 1]
           [] OTHER -> [st EXCEPT !.phase = "bad"]
    ELSE [st EXCEPT !.phase = "bad"]

RECURSIVE NumberScan(_, _)
NumberScan(text, st) ==
    IF text = <<>> THEN st
    ELSE NumberScan(Tail(text),
                    NumberStep(st, Head(text), CharValue(Head(text))))

\* int() of a scanned text: digits with single underscores between them
\* and nothing else, else ValueError
IntOfScan(sign, st) ==
    IF st.phase = "int" THEN Returns(sign * DigitsVal(st.digits))
    ELSE Raises("ValueError")

IntOfStripped(s) == IntOfScan(Sign(s), NumberScan(Unsigned(s), NumberStart))

\* int(text): surrounding whitespace is stripped; an optional sign and a
\* digit part, else ValueError
PyInt(text) == IntOfStripped(Strip(text))

\* A float: sign * d1.d2d3... * 10^exp for the digits d1 d2 d3 ..., with
\* no leading or trailing zero (no digit at all for zero), or an infinity,
\* or not-a-number
FloatFinite(sign, digits, exp) ==
    [kind |-> "finite", sign |-> sign, digits |-> digits, exp |-> exp]
FloatZero(sign) == FloatFinite(sign, <<>>, 0)
FloatInf(sign) == [kind |-> "inf", sign |-> sign, digits |-> <<>>, exp |-> 0]
FloatNaN == [kind |-> "nan", sign |-> 1, digits |-> <<>>, exp |-> 0]

RECURSIVE DropLeadingZeros(_)
DropLeadingZeros(ds) ==
    IF ds # <<>> /\ Head(ds) = 0 THEN DropLeadingZeros(Tail(ds)) ELSE ds

RECURSIVE DropTrailingZeros(_)
DropTrailingZeros(ds) ==
    IF ds # <<>> /\ ds[Len(ds)] = 0
    THEN DropTrailingZeros(SubSeq(ds, 1, Len(ds) - 1))
    ELSE ds

\* d1.d2d3... of a is less than d1.d2d3... of b (neither ends in a zero)
RECURSIVE DigitsLess(_, _)
DigitsLess(a, b) ==
    IF b = <<>> THEN FALSE
    ELSE IF a = <<>> THEN TRUE
    ELSE IF Head(a) # Head(b) THEN Head(a) < Head(b)
    ELSE DigitsLess(Tail(a), Tail(b))

\* the text is the word, in any mix of upper and lower case
Caseless(text, word) ==
    /\ Len(text) = Len(word)
    /\ \A i \in 1..Len(word) : text[i] \in word[i]

WordInf == <<{"i", "I"}, {"n", "N"}, {"f", "F"}>>
WordInfinity ==
    WordInf \o <<{"i", "I"}, {"n", "N"}, {"i", "I"}, {"t", "T"}, {"y", "Y"}>>
WordNaN == <<{"n", "N"}, {"a", "A"}, {"n", "N"}>>

\* the digits of 2^1024 - 2^970, which is d1.d2... * 10^308: a decimal of
\* at least this magnitude is rounded to an infinity
OverflowExp == 308
OverflowDigits ==
    <<1, 7, 9, 7, 6, 9, 3, 1, 3, 4, 8, 6, 2, 3, 1, 5, 8, 0, 7, 9, 3, 7, 2,
      8, 9, 7, 1, 4, 0, 5, 3, 0, 3, 4, 1, 5, 0, 7, 9, 9, 3, 4, 1, 3, 2, 7,
      1, 0, 0, 3, 7, 8, 2, 6, 9, 3, 6, 1, 7, 3, 7, 7, 8, 9, 8, 0, 4, 4, 4,
      9, 6, 8, 2, 9, 2, 7, 6, 4, 7, 5, 0, 9, 4, 6, 6, 4, 9, 0, 1, 7, 9, 7,
      7, 5, 8, 7, 2, 0, 7, 0, 9, 6, 3, 3, 0, 2, 8, 6, 4, 1, 6, 6, 9, 2, 8,
      8, 7, 9, 1, 0, 9, 4, 6, 5, 5, 5, 5, 4, 7, 8, 5, 1, 9, 4, 0, 4, 0, 2,
      6, 3, 0, 6, 5, 7, 4, 8, 8, 6, 7, 1, 5, 0, 5, 8, 2, 0, 6, 8, 1, 9, 0,
      8, 9, 0, 2, 0, 0, 0, 7, 0, 8, 3, 8, 3, 6, 7, 6, 2, 7, 3, 8, 5, 4, 8,
      4, 5, 8, 1, 7, 7, 1, 1, 5, 3, 1, 7, 6, 4, 4, 7, 5, 7, 3, 0, 2, 7, 0,
      0, 6, 9, 8, 5, 5, 5, 7, 1, 3, 6, 6, 9, 5, 9, 6, 2, 2, 8, 4, 2, 9, 1,
      4, 8, 1, 9, 8, 6, 0, 8, 3, 4, 9, 3, 6, 4, 7, 5, 2, 9, 2, 7, 1, 9, 0,
      7, 4, 1, 6, 8, 4, 4, 4, 3, 6, 5, 5, 1, 0, 7, 0, 4, 3, 4, 2, 7, 1, 1,
      5, 5, 9, 6, 9, 9, 5, 0, 8, 0, 9, 3, 0, 4, 2, 8, 8, 0, 1, 7, 7, 9, 0,
      4, 1, 7, 4, 4, 9, 7, 7, 9, 2>>

\* the digits of 2^-1075, which is d1.d2... * 10^-324: a decimal of at most
\* this magnitude is rounded to zero
UnderflowExp == -324
UnderflowDigits ==
    <<2, 4, 7, 0, 3, 2, 8, 2, 2, 9, 2, 0, 6, 2, 3, 2, 7, 2, 0, 8, 8, 2, 8,
      4, 3, 9, 6, 4, 3, 4, 1, 1, 0, 6, 8, 6, 1, 8, 2, 5, 2, 9, 9, 0, 1, 3,
      0, 7, 1, 6, 2, 3, 8, 2, 2, 1, 2, 7, 9, 2, 8, 4, 1, 2, 5, 0, 3, 3, 7,
      7, 5, 3, 6, 3, 5, 1, 0, 4, 3, 7, 5, 9, 3, 2, 6, 4, 9, 9, 1, 8, 1, 8,
      0, 8, 1, 7, 9, 9, 6, 1, 8, 9, 8, 9, 8, 2, 8, 2, 3, 4, 7, 7, 2, 2, 8,
      5, 8, 8, 6, 5, 4, 6, 3, 3, 2, 8, 3, 5, 5, 1, 7, 7, 9, 6, 9, 8, 9, 8,
      1, 9, 9, 3, 8, 7, 3, 9, 8, 0, 0, 5, 3, 9, 0, 9, 3, 9, 0, 6, 3, 1, 5,
      0, 3, 5, 6, 5, 9, 5, 1, 5, 5, 7, 0, 2, 2, 6, 3, 9, 2, 2, 9, 0, 8, 5,
      8, 3, 9, 2, 4, 4, 9, 1, 0, 5, 1, 8, 4, 4, 3, 5, 9, 3, 1, 8, 0, 2, 8,
      4, 9, 9, 3, 6, 5, 3, 6, 1, 5, 2, 5, 0, 0, 3, 1, 9, 3, 7, 0, 4, 5, 7,
      6, 7, 8, 2, 4, 9, 2, 1, 9, 3, 6, 5, 6, 2, 3, 6, 6, 9, 8, 6, 3, 6, 5,
      8, 4, 8, 0, 7, 5, 7, 0, 0, 1, 5, 8, 5, 7, 6, 9, 2, 6, 9, 9, 0, 3, 7,
      0, 6, 3, 1, 1, 9, 2, 8, 2, 7, 9, 5, 5, 8, 5, 5, 1, 3, 3, 2, 9, 2, 7,
      8, 3, 4, 3, 3, 8, 4, 0, 9, 3, 5, 1, 9, 7, 8, 0, 1, 5, 5, 3, 1, 2, 4,
      6, 5, 9, 7, 2, 6, 3, 5, 7, 9, 5, 7, 4, 6, 2, 2, 7, 6, 6, 4, 6, 5, 2,
      7, 2, 8, 2, 7, 2, 2, 0, 0, 5, 6, 3, 7, 4, 0, 0, 6, 4, 8, 5, 4, 9, 9,
      9, 7, 7, 0, 9, 6, 5, 9, 9, 4, 7, 0, 4, 5, 4, 0, 2, 0, 8, 2, 8, 1, 6,
      6, 2, 2, 6, 2, 3, 7, 8, 5, 7, 3, 9, 3, 4, 5, 0, 7, 3, 6, 3, 3, 9, 0,
      0, 7, 9, 6, 7, 7, 6, 1, 9, 3, 0, 5, 7, 7, 5, 0, 6, 7, 4, 0, 1, 7, 6,
      3, 2, 4, 6, 7, 3, 6, 0, 0, 9, 6, 8, 9, 5, 1, 3, 4, 0, 5, 3, 5, 5, 3,
      7, 4, 5, 8, 5, 1, 6, 6, 6, 1, 1, 3, 4, 2, 2, 3, 7, 6, 6, 6, 7, 8, 6,
      0, 4, 1, 6, 2, 1, 5, 9, 6, 8, 0, 4, 6, 1, 9, 1, 4, 4, 6, 7, 2, 9, 1,
      8, 4, 0, 3, 0, 0, 5, 3, 0, 0, 5, 7, 5, 3, 0, 8, 4, 9, 0, 4, 8, 7, 6,
      5, 3, 9, 1, 7, 1, 1, 3, 8, 6, 5, 9, 1, 6, 4, 6, 2, 3, 9, 5, 2, 4, 9,
      1, 2, 6, 2, 3, 6, 5, 3, 8, 8, 1, 8, 7, 9, 6, 3, 6, 2, 3, 9, 3, 7, 3,
      2, 8, 0, 4, 2, 3, 8, 9, 1, 0, 1, 8, 6, 7, 2, 3, 4, 8, 4, 9, 7, 6, 6,
      8, 2, 3, 5, 0, 8, 9, 8, 6, 3, 3, 8, 8, 5, 8, 7, 9, 2, 5, 6, 2, 8, 3,
      0, 2, 7, 5, 5, 9, 9, 5, 6, 5, 7, 5, 2, 4, 4, 5, 5, 5, 0, 7, 2, 5, 5,
      1, 8, 9, 3, 1, 3, 6, 9, 0, 8, 3, 6, 2, 5, 4, 7, 7, 9, 1, 8, 6, 9, 4,
      8, 6, 6, 7, 9, 9, 4, 9, 6, 8, 3, 2, 4, 0, 4, 9, 7, 0, 5, 8, 2, 1, 0,
      2, 8, 5, 1, 3, 1, 8, 5, 4, 5, 1, 3, 9, 6, 2, 1, 3, 8, 3, 7, 7, 2, 2,
      8, 2, 6, 1, 4, 5, 4, 3, 7, 6, 9, 3, 4, 1, 2, 5, 3, 2, 0, 9, 8, 5, 9,
      1, 3, 2, 7, 6, 6, 7, 2, 3, 6, 3, 2, 8, 1, 2, 5>>

\* the value of an exponent's digits; exponents beyond any float are all
\* alike
ExponentOf(d) == IF Len(d) > 6 THEN 1000000 ELSE DigitsVal(d)

ExponentVal(ds) == ExponentOf(DropLeadingZeros(ds))

\* the decimal sign * d1.d2... * 10^exp as a float: an infinity from the
\* overflow threshold on, zero up to the underflow threshold
Rounded(sign, digits, exp) ==
    IF digits = <<>> THEN FloatZero(sign)
    ELSE IF \/ exp > OverflowExp
            \/ exp = OverflowExp /\ ~DigitsLess(digits, OverflowDigits)
    THEN FloatInf(sign)
    ELSE IF \/ exp < UnderflowExp
            \/ exp = UnderflowExp /\ ~DigitsLess(UnderflowDigits, digits)
    THEN FloatZero(sign)
    ELSE FloatFinite(sign, digits, exp)

LeadingZeros(ds) == Len(ds) - Len(DropLeadingZeros(ds))

\* float() of a scanned text: digit parts around at most one point, at
\* least one of them, and an optional exponent, else ValueError
FloatOfScan(sign, st) ==
    IF st.phase \in {"int", "dot", "frac", "exp"}
    THEN Returns(Rounded(sign,
                         DropTrailingZeros(DropLeadingZeros(st.digits)),
                         st.nwhole - LeadingZeros(st.digits) - 1
                            + st.esign * ExponentVal(st.edigits)))
    ELSE Raises("ValueError")

FloatOfBody(sign, body) ==
    IF Caseless(body, WordInf) \/ Caseless(body, WordInfinity)
    THEN Returns(FloatInf(sign))
    ELSE IF Caseless(body, WordNaN) THEN Returns(FloatNaN)
    ELSE FloatOfScan(sign, NumberScan(body, NumberStart))

FloatOfStripped(s) == FloatOfBody(Sign(s), Unsigned(s))

\* float(text): surrounding whitespace is stripped; an optional sign, then
\* inf, infinity or nan in any case, or a number with an optional point
\* and an optional exponent; else ValueError.  The value is the decimal
\* the text denotes, an infinity beyond the largest float and zero below
\* the smallest; the rounding of a decimal to the nearest of the floats
\* between those is not modelled.
PyFloat(text) == FloatOfStripped(Strip(text))

----------------------------------------------------------------------------
(* Detail documents.  A document is what the selectors of the extractors   *)
(* find in it:                                                             *)
(*   h2      text of h2.display-name, or None                              *)
(*   genre   th: the "genre" header cell exists; td: it has a td sibling;  *)
(*           span: text of the first span of that td, or None              *)
(*   rating  b: b.c-rating__val exists; span: text of its span, or None    *)
(*   budget  block: .rdheader-budget exists; ps: its p entries, each with  *)
(*           icon (an i element exists), label (its aria-label) and span   *)
(*   review, hozon   block: the block exists; em: text of em.num, or None  *)

Entry(icon, label, span) == [icon |-> icon, label |-> label, span |-> span]

FullDoc ==
    [h2 |-> Some("Sushi Dai"),
     genre |-> [th |-> TRUE, td |-> TRUE, span |-> Some("Sushi")],
     rating |-> [b |-> TRUE, span |-> Some(<<"3", ".", "5", "8">>)],
     budget |-> [block |-> TRUE,
                 ps |-> <<Entry(TRUE, Some("Dinner"), Some("JPY 8000")),
                          Entry(TRUE, Some("Lunch"), Some("JPY 1000"))>>],
     review |-> [block |-> TRUE, em |-> Some(<<"1", "2", "0">>)],
     hozon |-> [block |-> TRUE, em |-> Some(<<"4", "5">>)]]

\* a new restaurant: no rating yet, no genre row, no counts, dinner only
SparseDoc ==
    [h2 |-> None,
     genre |-> [th |-> FALSE, td |-> FALSE, span |-> None],
     rating |-> [b |-> TRUE, span |-> Some(<<"-">>)],
     budget |-> [block |-> TRUE,
                 ps |-> <<Entry(FALSE, None, Some("JPY 500")),
                          Entry(TRUE, Some("Dinner"), Some("JPY 3000"))>>],
     review |-> [block |-> FALSE, em |-> None],
     hozon |-> [block |-> TRUE, em |-> None]]

\* a page without the budget block
NoBudgetDoc == [FullDoc EXCEPT !.budget = [block |-> FALSE, ps |-> <<>>]]

\* a page whose review count is not a plain number
BadCountDoc == [FullDoc EXCEPT !.review.em = Some(<<"1", ",", "2">>)]

----------------------------------------------------------------------------
(* The extractors *)

\* Tabelog._get_store
GetStore(bs) == Returns(bs.h2)

\* Tabelog._get_genre: a header cell without a td sibling makes
\* find_next_sibling return None, and .find on it raises
GetGenre(bs) ==
    IF ~bs.genre.th THEN Returns(None)
    ELSE IF ~bs.genre.td THEN Raises("AttributeError")
    ELSE Returns(bs.genre.span)

\* mutant of GetScore: the placeholder "-" is scored zero
GetScoreDashIsZero(bs) ==
    IF ~bs.rating.b \/ bs.rating.span = None THEN Returns(None)
    ELSE IF bs.rating.span[1] = <<"-">> THEN Returns(Some(FloatZero(1)))
    ELSE LET f == PyFloat(bs.rating.span[1])
         IN IF f.raised # "" THEN f ELSE Returns(Some(f.val))

\* Tabelog._get_score
GetScore(bs) ==
    IF ~bs.rating.b \/ bs.rating.span = None THEN Returns(None)
    ELSE IF bs.rating.span[1] = <<"-">> THEN Returns(None)
    ELSE LET f == PyFloat(bs.rating.span[1])
         IN IF f.raised # "" THEN f ELSE Returns(Some(f.val))

\* the loop of _get_budget over the p entries
RECURSIVE ScanBudget(_, _)
ScanBudget(ps, is_lunch) ==
    IF ps = <<>> THEN None
    ELSE LET p == Head(ps)
         IN IF /\ p.icon
               /\ \/ (p.label = Some("Lunch") /\ is_lunch)
                  \/ (p.label = Some("Dinner") /\ ~is_lunch)
               /\ p.span # None
            THEN p.span
            ELSE ScanBudget(Tail(ps), is_lunch)

\* Tabelog._get_budget: select_one returns None for a missing block and
\* .find_all on it raises
GetBudget(bs, is_lunch) ==
    IF ~bs.budget.block THEN Raises("AttributeError")
    ELSE Returns(ScanBudget(bs.budget.ps, is_lunch))

\* Tabelog._get_review_count and Tabelog._get_bookmark_count
GetCount(block) ==
    IF ~block.block \/ block.em = None THEN Returns(None)
    ELSE LET n == PyInt(block.em[1])
         IN IF n.raised # "" THEN n ELSE Returns(Some(n.val))

GetReviewCount(bs) == GetCount(bs.review)

GetBookmarkCount(bs) == GetCount(bs.hozon)

----------------------------------------------------------------------------
(* Tabelog._scrape_item: the records *)

ContentFields ==
    {"name", "genre", "score", "budget_of_lunch", "budget_of_dinner",
     "review_count", "bookmark_count"}

\* mutant of ErrorRecord: the content keys are filled with defaults
ErrorRecordWithDefaults(url_dict, status) ==
    [restaurant_id |-> url_dict.restaurant_id,
     url |-> url_dict.url,
     name |-> Some(""),
     genre |-> Some(""),
     score |-> Some(FloatZero(1)),
     budget_of_lunch |-> Some(""),
     budget_of_dinner |-> Some(""),
     review_count |-> Some(0),
     bookmark_count |-> Some(0),
     status |-> status,
     error |-> Some("HTTPStatusError")]

\* the dict appended in the except branch: the candidate, the status and
\* the caught exception, and no content key
ErrorRecord(url_dict, status) ==
    [restaurant_id |-> url_dict.restaurant_id,
     url |-> url_dict.url,
     status |-> status,
     error |-> Some("HTTPStatusError")]

\* the extractor calls of the dict literal, in evaluation order
Extracted(bs) ==
    <<GetStore(bs), GetGenre(bs), GetScore(bs), GetBudget(bs, TRUE),
      GetBudget(bs, FALSE), GetReviewCount(bs), GetBookmarkCount(bs)>>

\* the exception the dict literal raises for bs, "" when it raises none
ExtractRaises(bs) ==
    LET x == Extracted(bs)
        bad == {i \in 1..Len(x) : x[i].raised # ""}
    IN IF bad = {} THEN ""
       ELSE x[CHOOSE i \in bad : \A j \in bad : i <= j].raised

\* the dict built after a successful fetch
DataRecord(url_dict, status, bs) ==
    LET x == Extracted(bs)
    IN [restaurant_id |-> url_dict.restaurant_id,
        url |-> url_dict.url,
        name |-> x[1].val,
        genre |-> x[2].val,
        score |-> x[3].val,
        budget_of_lunch |-> x[4].val,
        budget_of_dinner |-> x[5].val,
        review_count |-> x[6].val,
        bookmark_count |-> x[7].val,
        status |-> status,
        error |-> None]

----------------------------------------------------------------------------
(* The environment's choices *)

\* the arguments proc() may pass for skip and limit
SkipArgs == {None} \cup {Some(n) : n \in 0..(LastPage + 1)}
LimitArgs == {None} \cup {Some(n) : n \in (-1)..LastPage}

\* documents whose every field is present, and documents lacking some
RegularDocs == {FullDoc}
IrregularDocs == {SparseDoc}
\* a document on which an extractor raises
BrokenDocs == {NoBudgetDoc}

\* the documents of the extraction runs: every combination of a present,
\* missing or malformed target of each extractor
RatingTexts ==
    {<<"-">>, <<"3", ".", "5", "8">>, <<"3", ".", "5">>, <<"3">>, <<"0">>,
     <<>>, <<"3", ",", "5">>, <<"3", ".", "5", "8", "9">>, <<"1", "e", "2">>,
     <<"U+FF13", ".", "U+FF15">>, <<"n", "a", "n">>}
CountTexts ==
    {<<"1", "2", "0">>, <<"0">>, <<"1", ",", "2">>,
     <<"1", "_", "0", "0", "0">>, <<"U+FF11", "U+FF12">>}
BudgetLists ==
    {<<>>,
     <<Entry(TRUE, Some("Lunch"), Some("JPY 1000"))>>,
     <<Entry(TRUE, Some("Dinner"), Some("JPY 8000"))>>,
     <<Entry(TRUE, Some("Dinner"), Some("JPY 8000")),
       Entry(TRUE, Some("Lunch"), Some("JPY 1000"))>>,
     <<Entry(FALSE, None, Some("JPY 500")),
       Entry(TRUE, Some("Dinner"), Some("JPY 3000"))>>,
     <<Entry(TRUE, Some("Lunch"), None),
       Entry(TRUE, Some("Lunch"), Some("JPY 1000"))>>,
     <<Entry(TRUE, None, Some("JPY 500")),
       Entry(TRUE, Some("Holiday"), Some("JPY 700"))>>}
AllDocs ==
    [h2 : {None, Some("Sushi Dai")},
     genre : {[th |-> FALSE, td |-> FALSE, span |-> None],
              [th |-> TRUE, td |-> FALSE, span |-> None],
              [th |-> TRUE, td |-> TRUE, span |-> None],
              [th |-> TRUE, td |-> TRUE, span |-> Some("Sushi")]},
     rating : {[b |-> FALSE, span |-> None], [b |-> TRUE, span |-> None]}
              \cup {[b |-> TRUE, span |-> Some(t)] : t \in RatingTexts},
     budget : {[block |-> FALSE, ps |-> <<>>]}
              \cup {[block |-> TRUE, ps |-> ps] : ps \in BudgetLists},
     review : {[block |-> FALSE, em |-> None], [block |-> TRUE, em |-> None]}
              \cup {[block |-> TRUE, em |-> Some(t)] : t \in CountTexts},
     hozon : {[block |-> FALSE, em |-> None], [block |-> TRUE, em |-> None],
              [block |-> TRUE, em |-> Some(<<"4", "5">>)]}]

----------------------------------------------------------------------------
(* The run *)

Init ==
    /\ test_mode \in BOOLEAN
    /\ \E skip \in SkipArgs, lim \in LimitArgs :
          /\ begin_page = BeginPage(skip)
          /\ limit = Limit(lim)
    /\ restaurant_id = 0
    /\ page_num = 0
    /\ url_list = <<>>
    /\ item_idx = 0
    /\ data_list = <<>>
    /\ pc = "init"
    /\ exc = ""
    /\ log = <<>>
    /\ irregular = 0
    /\ doc = None
    /\ client = "open"
    /\ issued = <<>>
    /\ calls = 0

\* scrape(), up to the while loop
ScrapeStart ==
    /\ pc = "init"
    /\ pc' = "walk"
    /\ page_num' = begin_page
    /\ url_list' = <<>>
    /\ calls' = calls + 1
    /\ UNCHANGED <<test_mode, begin_page, limit, restaurant_id, item_idx,
                   data_list, exc, log, irregular, doc, client, issued>>

\* the call self._scrape_item(url_list) that follows every break, up to
\* the for loop
EnterScrapeItem ==
    /\ pc' = "harvest"
    /\ item_idx' = 1
    /\ data_list' = <<>>

\* one iteration of the while loop whose client.get raises a transport
\* error: _scrape_urls catches HTTPStatusError only, so it leaves scrape()
WalkFetchFault ==
    /\ pc = "walk"
    /\ log' = Append(log, Event("list_get", page_num, NoResponse, <<>>))
    /\ pc' = "aborted"
    /\ exc' = "TransportError"
    /\ UNCHANGED <<test_mode, begin_page, limit, restaurant_id, page_num,
                   url_list, item_idx, data_list, irregular, doc, client,
                   issued, calls>>

\* one iteration whose fetch ends in a failure status: _scrape_urls
\* returns [], and scrape() breaks
WalkHTTPError ==
    /\ pc = "walk"
    /\ \E status \in FailureStatuses :
          log' = Append(log, Event("list_get", page_num, status, <<>>))
    /\ EnterScrapeItem
    /\ UNCHANGED <<test_mode, begin_page, limit, restaurant_id, page_num,
                   url_list, exc, irregular, doc, client, issued, calls>>

\* mutant of Politeness: the walker goes on without a delay
PolitenessSkipped(fetched) == fetched

\* scrape(): time.sleep(1), reached when no break was taken
Politeness(fetched) == Append(fetched, Event("delay", 1, NoResponse, <<>>))

\* one iteration whose fetch succeeds
WalkPage ==
    /\ pc = "walk"
    /\ \E status \in Statuses \ FailureStatuses :
       \E body \in PageBodies(page_num, test_mode, MaxIrregular - irregular) :
          LET r == ScrapeUrls(body, test_mode, restaurant_id)
              fetched == Append(log, Event("list_get", page_num, status, body))
          IN /\ restaurant_id' = r.next_id
             /\ issued' = issued \o [i \in 1..Len(r.list) |->
                                        r.list[i].restaurant_id]
             /\ irregular' = irregular + CountNoHref(body)
             /\ IF NoMoreRestaurants(r.list)
                THEN /\ EnterScrapeItem
                     /\ log' = fetched
                     /\ UNCHANGED <<url_list, page_num>>
                ELSE /\ url_list' = url_list \o r.list
                     /\ IF test_mode
                        THEN /\ EnterScrapeItem
                             /\ log' = fetched
                             /\ UNCHANGED page_num
                        ELSE /\ page_num' = page_num + 1
                             /\ IF ReachedLimit(page_num', limit)
                                THEN /\ EnterScrapeItem
                                     /\ log' = fetched
                                ELSE /\ log' = Politeness(fetched)
                                     /\ UNCHANGED <<pc, item_idx, data_list>>
    /\ UNCHANGED <<test_mode, begin_page, limit, exc, doc, client, calls>>

\* _scrape_item with an empty url_list returns an empty frame
HarvestNothing ==
    /\ pc = "harvest"
    /\ url_list = <<>>
    /\ pc' = "done"
    /\ UNCHANGED <<test_mode, begin_page, limit, restaurant_id, page_num,
                   url_list, item_idx, data_list, exc, log, irregular, doc,
                   client, issued, calls>>

HarvestPending == pc = "harvest" /\ item_idx <= Len(url_list)

\* one iteration of the for loop whose client.get raises a transport
\* error: it is no HTTPStatusError, so it leaves _scrape_item and scrape()
HarvestFetchFault ==
    /\ HarvestPending
    /\ log' = Append(log, Event("item_get", item_idx, NoResponse, <<>>))
    /\ pc' = "aborted"
    /\ exc' = "TransportError"
    /\ UNCHANGED <<test_mode, begin_page, limit, restaurant_id, page_num,
                   url_list, item_idx, data_list, irregular, doc, client,
                   issued, calls>>

\* a client.get of the for loop that got a response, and self.sleep()
AfterGet(status) ==
    log \o <<Event("item_get", item_idx, status, <<>>),
             Event("sleep", item_idx, NoResponse, <<>>)>>

\* mutant of HarvestHTTPError: the except branch continues without
\* appending a record
HarvestHTTPErrorDropsRecord ==
    /\ HarvestPending
    /\ irregular < MaxIrregular
    /\ \E status \in FailureStatuses : log' = AfterGet(status)
    /\ item_idx' = item_idx + 1
    /\ irregular' = irregular + 1
    /\ UNCHANGED <<test_mode, begin_page, limit, restaurant_id, page_num,
                   url_list, data_list, pc, exc, doc, client, issued, calls>>

\* mutant of HarvestHTTPError: the except branch fetches the same
\* candidate again
HarvestHTTPErrorRetries ==
    /\ HarvestPending
    /\ irregular < MaxIrregular
    /\ \E status \in FailureStatuses : log' = AfterGet(status)
    /\ irregular' = irregular + 1
    /\ UNCHANGED <<test_mode, begin_page, limit, restaurant_id, page_num,
                   url_list, item_idx, data_list, pc, exc, doc, client,
                   issued, calls>>

\* one iteration whose fetch ends in a failure status
HarvestHTTPError ==
    /\ HarvestPending
    /\ irregular < MaxIrregular
    /\ \E status \in FailureStatuses :
          /\ data_list' = Append(data_list,
                                 ErrorRecord(url_list[item_idx], status))
          /\ log' = AfterGet(status)
    /\ item_idx' = item_idx + 1
    /\ irregular' = irregular + 1
    /\ UNCHANGED <<test_mode, begin_page, limit, restaurant_id, page_num,
                   url_list, pc, exc, doc, client, issued, calls>>

\* one iteration whose fetch succeeds and whose extractors all return
HarvestItem ==
    /\ HarvestPending
    /\ \E status \in Statuses \ FailureStatuses :
       \E bs \in RegularDocs \cup
                 (IF irregular < MaxIrregular THEN IrregularDocs ELSE {}) :
          /\ ExtractRaises(bs) = ""
          /\ data_list' = Append(data_list,
                                 DataRecord(url_list[item_idx], status, bs))
          /\ irregular' = irregular + (IF bs \in IrregularDocs THEN 1 ELSE 0)
          /\ log' = AfterGet(status)
          /\ doc' = Some(bs)
    /\ item_idx' = item_idx + 1
    /\ UNCHANGED <<test_mode, begin_page, limit, restaurant_id, page_num,
                   url_list, pc, exc, client, issued, calls>>

\* one iteration whose fetch succeeds and one of whose extractors raises:
\* nothing catches it
HarvestExtractFault ==
    /\ HarvestPending
    /\ \E status \in Statuses \ FailureStatuses :
       \E bs \in BrokenDocs :
          /\ ExtractRaises(bs) # ""
          /\ exc' = ExtractRaises(bs)
          /\ log' = AfterGet(status)
          /\ doc' = Some(bs)
    /\ pc' = "aborted"
    /\ UNCHANGED <<test_mode, begin_page, limit, restaurant_id, page_num,
                   url_list, item_idx, data_list, irregular, client, issued,
                   calls>>

\* mutant of HarvestReturn: the walker goes on after the harvest
HarvestReturnResumesWalk ==
    /\ pc = "harvest"
    /\ url_list # <<>>
    /\ item_idx > Len(url_list)
    /\ pc' = "walk"
    /\ UNCHANGED <<test_mode, begin_page, limit, restaurant_id, page_num,
                   url_list, item_idx, data_list, exc, log, irregular, doc,
                   client, issued, calls>>

\* the for loop is over: return pl.DataFrame(data_list)
HarvestReturn ==
    /\ pc = "harvest"
    /\ url_list # <<>>
    /\ item_idx > Len(url_list)
    /\ pc' = "done"
    /\ UNCHANGED <<test_mode, begin_page, limit, restaurant_id, page_num,
                   url_list, item_idx, data_list, exc, log, irregular, doc,
                   client, issued, calls>>

\* mutant of WriteCsv: the records so far are written while the harvest
\* is still under way
WriteCsvEarly ==
    /\ pc \in {"harvest", "done"}
    /\ pc' = "written"
    /\ log' = Append(log, Event("write_csv", Len(data_list), NoResponse, <<>>))
    /\ UNCHANGED <<test_mode, begin_page, limit, restaurant_id, page_num,
                   url_list, item_idx, data_list, exc, irregular, doc, client,
                   issued, calls>>

\* proc(): df.write_csv(output_path)
WriteCsv ==
    /\ pc = "done"
    /\ pc' = "written"
    /\ log' = Append(log, Event("write_csv", Len(data_list), NoResponse, <<>>))
    /\ UNCHANGED <<test_mode, begin_page, limit, restaurant_id, page_num,
                   url_list, item_idx, data_list, exc, irregular, doc, client,
                   issued, calls>>

\* proc(): os.makedirs or df.write_csv raises, and nothing catches it
WriteCsvFault ==
    /\ pc = "done"
    /\ pc' = "aborted"
    /\ exc' = "OSError"
    /\ log' = Append(log, Event("write_fault", Len(data_list), NoResponse,
                                <<>>))
    /\ UNCHANGED <<test_mode, begin_page, limit, restaurant_id, page_num,
                   url_list, item_idx, data_list, irregular, doc, client,
                   issued, calls>>

\* Tabelog.__del__: self.client.close()
Del ==
    /\ client' = "closed"
    /\ log' = Append(log, Event("close", 0, NoResponse, <<>>))

\* an error record holds the caught HTTPStatusError, whose traceback holds
\* the frame of _scrape_item, whose locals hold self and data_list: the
\* instance is part of a reference cycle
InCycle == \E i \in 1..Len(data_list) : data_list[i].error # None

\* proc() returns and the run ends with no error record: the local tl is
\* the only reference to the instance, so the instance is finalized when
\* proc() returns and __del__ closes the client
ProcReturn ==
    /\ pc = "written"
    /\ ~InCycle
    /\ pc' = "exited"
    /\ Del
    /\ UNCHANGED <<test_mode, begin_page, limit, restaurant_id, page_num,
                   url_list, item_idx, data_list, exc, irregular, doc, issued,
                   calls>>

\* proc() returns and the run ends with an error record: the cycle keeps
\* the instance alive past the return of proc(), and nothing in proc()
\* releases the client.  The interpreter finalizes the instance while it
\* shuts down, and __del__ closes the client before the process ends.
ProcReturnCycle ==
    /\ pc = "written"
    /\ InCycle
    /\ pc' = "exited"
    /\ Del
    /\ UNCHANGED <<test_mode, begin_page, limit, restaurant_id, page_num,
                   url_list, item_idx, data_list, exc, irregular, doc, issued,
                   calls>>

\* ProcRaise with the finalizer left out: the process ends after an abort
\* and the client is never closed
ProcRaiseLeaksClient ==
    /\ pc = "aborted"
    /\ pc' = "exited"
    /\ UNCHANGED <<test_mode, begin_page, limit, restaurant_id, page_num,
                   url_list, item_idx, data_list, exc, irregular, doc, client,
                   issued, calls, log>>

\* an exception leaves proc(): nothing in proc() or scrape() releases the
\* client (no with, no try/finally), and the traceback keeps the instance
\* alive while the exception is reported.  The interpreter finalizes the
\* instance while it shuts down, and __del__ closes the client before the
\* process ends.
ProcRaise ==
    /\ pc = "aborted"
    /\ pc' = "exited"
    /\ Del
    /\ UNCHANGED <<test_mode, begin_page, limit, restaurant_id, page_num,
                   url_list, item_idx, data_list, exc, irregular, doc, issued,
                   calls>>

----------------------------------------------------------------------------
(* Extraction runs: the harvester at its first candidate, the page served  *)
(* for it drawn from AllDocs                                               *)

InitExtract ==
    /\ test_mode = FALSE
    /\ begin_page = 1
    /\ limit = 1
    /\ restaurant_id = 1
    /\ page_num = 2
    /\ url_list = <<[restaurant_id |-> 0, url |-> Href(1, 1)]>>
    /\ item_idx = 1
    /\ data_list = <<>>
    /\ pc = "harvest"
    /\ exc = ""
    /\ log = <<Event("list_get", 1, 200, <<Href(1, 1)>>)>>
    /\ irregular = 0
    /\ doc = None
    /\ client = "open"
    /\ issued = <<0>>
    /\ calls = 1

\* HarvestItem, for any document whose extractors all return
ExtractItem ==
    /\ HarvestPending
    /\ \E status \in Statuses \ FailureStatuses :
       \E bs \in AllDocs :
          /\ ExtractRaises(bs) = ""
          /\ data_list' = Append(data_list,
                                 DataRecord(url_list[item_idx], status, bs))
          /\ log' = AfterGet(status)
          /\ doc' = Some(bs)
    /\ item_idx' = item_idx + 1
    /\ UNCHANGED <<test_mode, begin_page, limit, restaurant_id, page_num,
                   url_list, pc, exc, irregular, client, issued, calls>>

\* HarvestExtractFault, for any document one of whose extractors raises
ExtractFault ==
    /\ HarvestPending
    /\ \E status \in Statuses \ FailureStatuses :
       \E bs \in AllDocs :
          /\ ExtractRaises(bs) # ""
          /\ exc' = ExtractRaises(bs)
          /\ log' = AfterGet(status)
          /\ doc' = Some(bs)
    /\ pc' = "aborted"
    /\ UNCHANGED <<test_mode, begin_page, limit, restaurant_id, page_num,
                   url_list, item_idx, data_list, irregular, client, issued,
                   calls>>

NextExtract ==
    \/ ExtractItem
    \/ ExtractFault
    \/ HarvestReturn
    \/ WriteCsv
    \/ ProcReturn

SpecExtract == InitExtract /\ [][NextExtract]_vars

----------------------------------------------------------------------------
(* Reuse runs: a caller that keeps the instance and calls scrape() again   *)

\* a normal-mode instance whose limit is below the last page that has
\* anchors, before its first scrape()
InitReuse ==
    /\ Init
    /\ test_mode = FALSE
    /\ limit <= LastPage - 1

\* mutant of ScrapeAgain: the call starts its ids at 0 again
ScrapeAgainResetsCounter ==
    /\ pc \in {"done", "aborted"}
    /\ calls < MaxScrapes
    /\ calls' = calls + 1
    /\ pc' = "walk"
    /\ page_num' = begin_page
    /\ url_list' = <<>>
    /\ restaurant_id' = 0
    /\ item_idx' = 0
    /\ data_list' = <<>>
    /\ exc' = ""
    /\ log' = <<>>
    /\ doc' = None
    /\ UNCHANGED <<test_mode, begin_page, limit, irregular, client, issued>>

\* scrape() has returned or raised, and the caller calls it again on the
\* same instance: page_num and url_list are locals set anew, and
\* self.restaurant_id is left as the call before left it.  The log and
\* the result of the call before are dropped.
ScrapeAgain ==
    /\ pc \in {"done", "aborted"}
    /\ calls < MaxScrapes
    /\ calls' = calls + 1
    /\ pc' = "walk"
    /\ page_num' = begin_page
    /\ url_list' = <<>>
    /\ item_idx' = 0
    /\ data_list' = <<>>
    /\ exc' = ""
    /\ log' = <<>>
    /\ doc' = None
    /\ UNCHANGED <<test_mode, begin_page, limit, restaurant_id, irregular,
                   client, issued>>

NextReuse ==
    \/ ScrapeStart
    \/ WalkPage
    \/ WalkHTTPError
    \/ WalkFetchFault
    \/ HarvestNothing
    \/ HarvestItem
    \/ HarvestHTTPError
    \/ HarvestFetchFault
    \/ HarvestExtractFault
    \/ HarvestReturn
    \/ ScrapeAgain

SpecReuse == InitReuse /\ [][NextReuse]_vars

----------------------------------------------------------------------------
Next ==
    \/ ScrapeStart
    \/ WalkPage
    \/ WalkHTTPError
    \/ WalkFetchFault
    \/ HarvestNothing
    \/ HarvestItem
    \/ HarvestHTTPError
    \/ HarvestFetchFault
    \/ HarvestExtractFault
    \/ HarvestReturn
    \/ WriteCsv
    \/ WriteCsvFault
    \/ ProcReturn
    \/ ProcReturnCycle
    \/ ProcRaise

Spec == Init /\ [][Next]_vars

----------------------------------------------------------------------------
(* Vocabulary of the properties *)

ListGets == SelectSeq(log, LAMBDA e : e.kind = "list_get")
ItemGets == SelectSeq(log, LAMBDA e : e.kind = "item_get")

\* a fetch that ended in a failure status
FailedStatus(e) == e.status # NoResponse /\ ~IsSuccess(e.status)
\* a fetch that raised before any response
Faulted(e) == e.status = NoResponse

\* the walker is over: scrape() has left its while loop
WalkOver == pc \notin {"init", "walk"}
\* the harvester was entered
HarvestEntered == item_idx >= 1
\* the run is over
RunOver == pc \in {"done", "written", "aborted", "exited"}

\* a field of a record is absent: the key is missing, or its value is None
Absent(r, f) == f \notin DOMAIN r \/ r[f] = None

\* the hrefs of a body that are link targets, in document order
Usable(body) == SelectSeq(body, LAMBDA h : h # NoHref)

\* url a comes before url b in discovery order: an earlier page, or an
\* earlier anchor of the same page
Before(a, b) == a[1] < b[1] \/ (a[1] = b[1] /\ a[2] < b[2])

Max(a, b) == IF a >= b THEN a ELSE b

----------------------------------------------------------------------------
\* C1: once a run that entered the harvester is over, the harvester has
\* produced exactly one record per candidate, whatever the fetch outcomes.
C1_RecordPerCandidate ==
    (RunOver /\ HarvestEntered) => Len(data_list) = Len(url_list)

\* C2: at every point of a run the candidates accumulated so far carry the
\* ids 0, 1, ..., n-1 in discovery order, and the counter stands at n: an
\* anchor skipped for lacking a link target has consumed no id.
C2_DenseIds ==
    /\ \A i \in 1..Len(url_list) : url_list[i].restaurant_id = i - 1
    /\ \A i, j \in 1..Len(url_list) :
          i < j => Before(url_list[i].url, url_list[j].url)
    /\ pc # "init" => restaurant_id = Len(url_list)

\* candidates of two pages, the first of them found behind a skipped anchor
C2_Witness ==
    /\ Len(url_list) >= 2
    /\ url_list[1].url = Href(1, 2)
    /\ url_list[Len(url_list)].url[1] = 2

\* C3: the k-th detail fetch is the fetch of the k-th candidate, and the
\* i-th record carries the id and the url of the i-th candidate, for failed
\* and successful items alike.
C3_DiscoveryOrder ==
    /\ \A k \in 1..Len(ItemGets) : ItemGets[k].n = k
    /\ \A i \in 1..Len(data_list) :
          /\ i <= Len(url_list)
          /\ data_list[i].restaurant_id = url_list[i].restaurant_id
          /\ data_list[i].url = url_list[i].url

\* a finished harvest whose first item failed and whose second succeeded
C3_Witness ==
    /\ pc = "done"
    /\ Len(data_list) >= 2
    /\ data_list[1].error # None
    /\ data_list[2].error = None

\* C4: a detail fetch that ended in a failure status has left a record with
\* the candidate's id and url, that status, an error, and no content field;
\* it was fetched once, and the harvest went on to the next candidate.
C4_FailureRecord ==
    \A j \in 1..Len(log) :
       (log[j].kind = "item_get" /\ FailedStatus(log[j])) =>
          LET i == log[j].n
              later == {k \in (j + 1)..Len(log) : log[k].kind = "item_get"}
          IN /\ i <= Len(data_list)
             /\ data_list[i].restaurant_id = url_list[i].restaurant_id
             /\ data_list[i].url = url_list[i].url
             /\ data_list[i].status = log[j].status
             /\ data_list[i].error # None
             /\ \A f \in ContentFields : Absent(data_list[i], f)
             /\ \A k \in later : log[k].n > i
             /\ later = {} => /\ exc \in {"", "OSError"}
                              /\ pc = "harvest" => item_idx = i + 1

\* the first item failed with 404 and the second one has been fetched
C4_Witness ==
    /\ Len(ItemGets) >= 2
    /\ ItemGets[1].status = 404
    /\ Len(data_list) >= 2

\* C5: a record's error is set exactly when its detail fetch ended in a
\* failure status or raised a transport fault, and in both of these cases
\* the record exists, with its error set and no content field.
C5_ErrorIffFailed ==
    \A j \in 1..Len(log) :
       log[j].kind = "item_get" =>
          LET i == log[j].n
              failed == FailedStatus(log[j]) \/ Faulted(log[j])
          IN /\ failed => /\ i <= Len(data_list)
                          /\ data_list[i].error # None
                          /\ \A f \in ContentFields : Absent(data_list[i], f)
             /\ (~failed /\ i <= Len(data_list)) => data_list[i].error = None

\* the first listing page of the run, when its fetch succeeded with at
\* least `n` anchors
FirstPageHas(n) ==
    /\ ListGets # <<>>
    /\ IsSuccess(ListGets[1].status)
    /\ Len(ListGets[1].body) >= n

\* C6, as claimed: a test-mode run whose first listing page has at least 8
\* anchors yields exactly 5 candidates and fetches no second listing page.
C6_TestModeExactlyFive ==
    (test_mode /\ WalkOver /\ FirstPageHas(8)) =>
        /\ Len(url_list) = 5
        /\ Len(ListGets) = 1

\* C6, amended: such a run yields one candidate per anchor with a usable
\* link target among the first 5 anchors of the page, so at most 5 and
\* exactly 5 when all of the first 5 have one, and fetches no second page.
C6_TestModeFirstFive ==
    (test_mode /\ WalkOver /\ FirstPageHas(8)) =>
        /\ Len(url_list) = Len(Usable(SubSeq(ListGets[1].body, 1, 5)))
        /\ Len(url_list) <= 5
        /\ \A i \in 1..Len(url_list) : url_list[i].url[2] <= 5
        /\ Len(ListGets) = 1

\* a test-mode page of 8 or more anchors whose first five all have a link
\* target, handed to the harvester as 5 candidates
C6_Witness ==
    /\ test_mode
    /\ pc = "harvest"
    /\ FirstPageHas(8)
    /\ Len(url_list) = 5

\* C7: with test mode off and start_page = max_page the walker fetches one
\* listing page, the one numbered start_page, and stops at the page limit
\* although the page had candidates; these are kept, and harvested.
C7_StartEqualsMax ==
    (~test_mode /\ begin_page = limit) =>
        /\ Len(ListGets) <= 1
        /\ WalkOver => (Len(ListGets) = 1 /\ ListGets[1].n = begin_page)
        /\ (WalkOver /\ IsSuccess(ListGets[1].status)) =>
              /\ [i \in 1..Len(url_list) |-> url_list[i].url]
                    = Usable(ListGets[1].body)
              /\ url_list # <<>> => page_num = limit + 1
        /\ pc \in {"done", "written"} => Len(data_list) = Len(url_list)

\* start_page = max_page = 2, page 2 had two candidates, both harvested
C7_Witness ==
    /\ ~test_mode
    /\ begin_page = 2
    /\ limit = 2
    /\ pc = "done"
    /\ Len(url_list) = 2
    /\ Len(data_list) = 2

\* C8, as claimed: the listing pages the walker has fetched in a run, once
\* it is over, number at most max_page.
C8_AtMostMaxPage == WalkOver => Len(ListGets) <= limit

\* C8, amended: the walker fetches at most max(1, max_page) listing pages;
\* the page numbered start_page is fetched whatever max_page is.
C8_AtMostMaxPageOrOne == Len(ListGets) <= Max(1, limit)

\* max_page = 2 and two pages fetched, the second one with candidates
C8_Witness ==
    /\ limit = 2
    /\ Len(ListGets) = 2
    /\ WalkOver
    /\ url_list # <<>>
    /\ url_list[Len(url_list)].url[1] = 2

\* C9: a listing fetch that failed, by status or by a fetch error, has not
\* raised out of the walker: pagination ended there and the harvester was
\* entered with the candidates accumulated so far.
C9_ListingFailureAbsorbed ==
    \A j \in 1..Len(log) :
       (log[j].kind = "list_get" /\ (FailedStatus(log[j]) \/ Faulted(log[j])))
          => /\ HarvestEntered
             /\ \A k \in (j + 1)..Len(log) : log[k].kind # "list_get"

\* a listing fetch that succeeded and found no candidate: no anchor, or
\* none with a link target among the anchors the walker looks at
ZeroCandidates(e) ==
    /\ e.kind = "list_get"
    /\ IsSuccess(e.status)
    /\ \A i \in 1..Len(e.body) :
          (test_mode => i <= 5) => e.body[i] = NoHref

\* the step fetches a listing page, and it has zero candidates
FetchesZeroPage ==
    /\ pc = "walk"
    /\ Len(ListGets') = Len(ListGets) + 1
    /\ ZeroCandidates(ListGets'[Len(ListGets')])

\* C10: the step that fetches a listing page with zero candidates hands
\* the list accumulated from the prior pages to the harvester unchanged,
\* and no listing page is fetched after such a page.
C10_ZeroPageStops ==
    /\ [][FetchesZeroPage =>
             /\ url_list' = url_list
             /\ pc' = "harvest"
             /\ item_idx' = 1]_vars
    /\ [](\A j \in 1..Len(ListGets) :
             ZeroCandidates(ListGets[j]) => j = Len(ListGets))

\* page 2 had one anchor, without a link target: the two candidates of
\* page 1 are what the harvester gets
C10_Witness ==
    /\ pc = "harvest"
    /\ Len(ListGets) = 2
    /\ ListGets[2].body = <<NoHref>>
    /\ Len(url_list) = 2
    /\ item_idx = 1

----------------------------------------------------------------------------
\* the rating texts that float() converts, with the float they denote
ScoreOf(text) ==
    LET num(ds, e) == Some([kind |-> "finite", sign |-> 1, digits |-> ds,
                            exp |-> e])
    IN CASE text = <<"3", ".", "5", "8">> -> num(<<3, 5, 8>>, 0)
         [] text = <<"3", ".", "5">> -> num(<<3, 5>>, 0)
         [] text = <<"3">> -> num(<<3>>, 0)
         [] text = <<"0">> -> num(<<>>, 0)
         [] text = <<"3", ".", "5", "8", "9">> -> num(<<3, 5, 8, 9>>, 0)
         [] text = <<"1", "e", "2">> -> num(<<1>>, 2)
         [] text = <<"U+FF13", ".", "U+FF15">> -> num(<<3, 5>>, 0)
         [] text = <<"n", "a", "n">> ->
               Some([kind |-> "nan", sign |-> 1, digits |-> <<>>, exp |-> 0])
         [] OTHER -> None

\* the count texts that are a number, with the number they denote
CountOf(text) ==
    CASE text = <<"1", "2", "0">> -> Some(120)
      [] text = <<"4", "5">> -> Some(45)
      [] text = <<"0">> -> Some(0)
      [] text = <<"1", "_", "0", "0", "0">> -> Some(1000)
      [] text = <<"U+FF11", "U+FF12">> -> Some(12)
      [] OTHER -> None

\* the record without its score
OtherFields(r) == [f \in (DOMAIN r) \ {"score"} |-> r[f]]

\* the rating element is missing, or its text is exactly "-"
NoRating(bs) ==
    \/ ~bs.rating.b
    \/ bs.rating.span = None
    \/ bs.rating.span[1] = <<"-">>

\* C11: the record of a successfully fetched detail page has an absent
\* score (None, not zero) when the rating element is missing or its text is
\* exactly "-", the numeric value of the text otherwise, and its other
\* fields are what they are for the same page with any other rating.
C11_ScoreAbsentOrNumeric ==
    (doc # None /\ Len(data_list) = 1) =>
        LET bs == doc[1]
            r == data_list[1]
        IN /\ "score" \in DOMAIN r
           /\ NoRating(bs) => r.score = None
           /\ ~NoRating(bs) =>
                 /\ r.score # None
                 /\ r.score = ScoreOf(bs.rating.span[1])
           /\ \A rt \in {[b |-> FALSE, span |-> None],
                         [b |-> TRUE, span |-> Some(<<"3", ".", "5", "8">>)]} :
                 OtherFields(r) =
                    OtherFields(DataRecord(url_list[1], r.status,
                                           [bs EXCEPT !.rating = rt]))

\* a page rated "-" whose other targets are all present: the score is
\* absent and the six other fields are extracted
C11_Witness ==
    /\ doc # None
    /\ Len(data_list) = 1
    /\ doc[1].rating.span = Some(<<"-">>)
    /\ data_list[1].score = None
    /\ data_list[1].name # None
    /\ data_list[1].genre # None
    /\ data_list[1].budget_of_lunch # None
    /\ data_list[1].budget_of_dinner # None
    /\ data_list[1].review_count = Some(120)
    /\ data_list[1].bookmark_count = Some(45)

----------------------------------------------------------------------------
\* C12: every detail fetch attempt in the log, whatever its outcome, is
\* directly followed by exactly one randomized pacing delay.
C12_PacingAfterEveryFetch ==
    \A i \in 1..Len(log) :
        log[i].kind = "item_get" =>
            /\ i < Len(log)
            /\ log[i + 1].kind = "sleep"
            /\ i + 2 <= Len(log) => log[i + 2].kind # "sleep"

----------------------------------------------------------------------------
\* C13: every listing fetch precedes every detail fetch, and once the
\* walker is over no step fetches a listing page or adds a candidate.
C13_WalkThenHarvest ==
    /\ [](\A i \in 1..Len(log) : \A j \in 1..Len(log) :
             (log[i].kind = "list_get" /\ log[j].kind = "item_get") => i < j)
    /\ [](pc \in {"init", "walk"} => ItemGets = <<>>)
    /\ [][WalkOver =>
             /\ url_list' = url_list
             /\ restaurant_id' = restaurant_id
             /\ ListGets' = ListGets]_vars

\* two listing pages were fetched, then both candidates
C13_Witness ==
    /\ pc = "done"
    /\ Len(ListGets) = 2
    /\ Len(url_list) = 2
    /\ Len(ItemGets) = 2

----------------------------------------------------------------------------
\* the output writes of the run
Writes == SelectSeq(log, LAMBDA e : e.kind = "write_csv")

\* C14: the output file is written at most once, only when the harvester
\* has returned a record for every candidate, and after every fetch; a run
\* that aborts while walking or harvesting writes nothing.
C14_WriteOnceAfterHarvest ==
    LET w == Writes
    IN /\ Len(w) <= 1
       /\ Len(w) = 1 =>
             /\ Len(data_list) = Len(url_list)
             /\ w[1].n = Len(url_list)
             /\ item_idx > Len(url_list)
             /\ exc = ""
       /\ \A i \in 1..Len(log) :
             log[i].kind = "write_csv" =>
                 \A j \in (i + 1)..Len(log) :
                     log[j].kind \notin {"list_get", "item_get", "sleep",
                                         "delay"}
       /\ exc \notin {"", "OSError"} => w = <<>>

\* the frame of a run with two candidates was written
C14_Witness ==
    /\ pc = "written"
    /\ Len(Writes) = 1
    /\ Len(url_list) = 2
    /\ Len(data_list) = 2

----------------------------------------------------------------------------
\* every text the document does have is one its extractor can convert:
\* the document differs from a full page only in what is missing
WellFormedTexts(bs) ==
    /\ bs.rating.span # None =>
          (bs.rating.span[1] = <<"-">> \/ ScoreOf(bs.rating.span[1]) # None)
    /\ bs.review.em # None => CountOf(bs.review.em[1]) # None
    /\ bs.hozon.em # None => CountOf(bs.hozon.em[1]) # None

\* C15: for a successfully fetched detail document, whichever of its
\* target elements are missing, no extractor raises: a full record with an
\* absent error is emitted, the fields of the missing targets absent.
C15_MissingNeverRaises ==
    (doc # None /\ WellFormedTexts(doc[1])) =>
        /\ exc = ""
        /\ Len(data_list) = 1
        /\ ContentFields \subseteq DOMAIN data_list[1]
        /\ data_list[1].error = None
        /\ doc[1].h2 = None => data_list[1].name = None
        /\ ~doc[1].genre.th => data_list[1].genre = None
        /\ ~doc[1].rating.b => data_list[1].score = None
        /\ ~doc[1].review.block => data_list[1].review_count = None
        /\ ~doc[1].hozon.block => data_list[1].bookmark_count = None

----------------------------------------------------------------------------
\* C16: no request is retried: the listing fetches are for strictly
\* increasing page numbers and the detail fetches for strictly increasing
\* candidate positions, so no page and no candidate is fetched twice,
\* whatever the outcome of its fetch; a failed listing fetch is the last.
C16_NoRetry ==
    LET lg == ListGets
        ig == ItemGets
    IN /\ \A i \in 1..(Len(lg) - 1) : lg[i].n < lg[i + 1].n
       /\ \A i \in 1..(Len(ig) - 1) : ig[i].n < ig[i + 1].n
       /\ \A i \in 1..(Len(lg) - 1) : IsSuccess(lg[i].status)
       /\ Len(ig) <= Len(url_list)

\* the fetch of the first candidate ended in a failure status and the next
\* fetch was for the second candidate; the second listing fetch failed too
C16_Witness ==
    /\ Len(ItemGets) = 2
    /\ FailedStatus(ItemGets[1])
    /\ ItemGets[2].n = 2
    /\ Len(ListGets) = 2
    /\ FailedStatus(ListGets[2])

----------------------------------------------------------------------------
\* the fixed politeness delays of the run
Delays == SelectSeq(log, LAMBDA e : e.kind = "delay")

\* C17: a fixed politeness delay stands directly after a listing fetch and,
\* once the walker has gone on, directly before the next one; two
\* consecutive listing fetches have exactly one such delay between them;
\* it is taken only after the increment, with the limit not exceeded; and
\* none follows the walker's final listing fetch.
C17_OneDelayBetweenPages ==
    LET lg == ListGets
        nd == Len(Delays)
        at == {i \in 1..Len(log) : log[i].kind = "list_get"}
    IN /\ \A i \in 1..Len(log) :
             log[i].kind = "delay" =>
                 /\ i > 1
                 /\ log[i - 1].kind = "list_get"
                 /\ i < Len(log) => log[i + 1].kind = "list_get"
       /\ \A i \in at :
             (\E j \in at : i < j) =>
                 /\ log[i + 1].kind = "delay"
                 /\ log[i + 2].kind = "list_get"
       /\ (pc = "walk" /\ lg # <<>>) =>
             /\ log[Len(log)].kind = "delay"
             /\ nd = Len(lg)
             /\ page_num = lg[Len(lg)].n + 1
             /\ page_num <= limit
       /\ WalkOver =>
             /\ lg # <<>>
             /\ nd = Len(lg) - 1

\* two listing pages were fetched with one delay between them, and the
\* harvester was entered right after the second fetch
C17_Witness ==
    /\ pc = "harvest"
    /\ item_idx = 1
    /\ Len(ListGets) = 2
    /\ Len(log) = 3
    /\ log[2].kind = "delay"
    /\ log[3].kind = "list_get"

----------------------------------------------------------------------------
\* the releases of the shared client
Closes == SelectSeq(log, LAMBDA e : e.kind = "close")

\* C18: the shared client is created once at start and is the one client
\* of every listing and detail fetch (it is open from the start until its
\* release, and every fetch precedes the release); it is released exactly
\* once on every exit path (normal completion, abort while walking or
\* harvesting, failure while writing the output): the run has ended
\* exactly when the client is closed, with one release as the last event.
C18_ReleasedOnEveryExit ==
    /\ Len(Closes) <= 1
    /\ client = "closed" <=> Len(Closes) = 1
    /\ client = "closed" <=> pc = "exited"
    /\ \A i \in 1..Len(log) :
          log[i].kind = "close" => i = Len(log)
    /\ pc = "exited" => client = "closed"

\* a run that fetched a listing page and a detail page, was aborted by a
\* transport fault of a later fetch, and ended with the client released
\* once
C18_Witness ==
    /\ pc = "exited"
    /\ exc = "TransportError"
    /\ Len(ListGets) >= 1
    /\ Len(ItemGets) >= 2
    /\ client = "closed"
    /\ Len(Closes) = 1

----------------------------------------------------------------------------
\* C19: the walker terminates: a step of the walker either ends the walk
\* or moves to the next page number, which does not exceed the limit.
\* Every run fetches the page begin_page first, then consecutive page
\* numbers, at least one page and at most max(1, limit - begin_page + 1);
\* when begin_page exceeds the limit the page begin_page is still fetched
\* and its candidates are harvested.
C19_WalkTerminates ==
    /\ [][pc = "walk" =>
             \/ pc' # "walk"
             \/ /\ page_num' = page_num + 1
                /\ page_num' <= limit
                /\ Len(ListGets') = Len(ListGets) + 1]_vars
    /\ [](\A k \in 1..Len(ListGets) : ListGets[k].n = begin_page + k - 1)
    /\ [](Len(ListGets) <= Max(1, limit - begin_page + 1))
    /\ [](WalkOver => Len(ListGets) >= 1)
    /\ []((WalkOver /\ begin_page > limit) =>
             /\ Len(ListGets) = 1
             /\ ListGets[1].n = begin_page
             /\ Len(url_list) =
                   Len(Usable(TargetRestaurants(ListGets[1].body, test_mode))))
    /\ []((pc = "done" /\ begin_page > limit) =>
             /\ Len(data_list) = Len(url_list)
             /\ \A i \in 1..Len(data_list) :
                   data_list[i].url = Usable(ListGets[1].body)[i])

\* a run with begin_page 2 and limit 1: page 2 was fetched and its two
\* candidates were harvested
C19_Witness ==
    /\ begin_page = 2
    /\ limit = 1
    /\ pc = "done"
    /\ Len(ListGets) = 1
    /\ ListGets[1].n = 2
    /\ Len(url_list) = 2
    /\ Len(data_list) = 2

----------------------------------------------------------------------------
\* C20: the id counter of an instance only grows, by one per candidate
\* appended, and is never reset: over all scrape() calls on the instance
\* the ids are 0, 1, 2, ... in assignment order, pairwise distinct, and the
\* candidates of a later call carry the ids that follow those of the calls
\* before it.
C20_IdsContinueAcrossCalls ==
    /\ [][/\ restaurant_id' >= restaurant_id
          /\ restaurant_id' - restaurant_id = Len(issued') - Len(issued)
          /\ Len(issued') - Len(issued) >= Len(url_list') - Len(url_list)]_vars
    /\ [](\A i \in 1..Len(issued) : \A j \in 1..Len(issued) :
             i < j => issued[i] < issued[j])
    /\ [](\A i \in 1..Len(issued) : issued[i] = i - 1)
    /\ [](Len(issued) = restaurant_id)
    /\ [](\A i \in 1..Len(url_list) :
             url_list[i].restaurant_id = issued[Len(issued) - Len(url_list) + i])

\* the first call assigned the ids 0 and 1, and the first candidate of the
\* second call has the id 2
C20_Witness ==
    /\ calls = 2
    /\ url_list # <<>>
    /\ url_list[1].restaurant_id = 2
    /\ issued = <<0, 1, 2>>

====
